---- MODULE Spec2Model ----
(***************************************************************************)
(* Model of simple_romp/romp/model.py: the coordinate-map generator, the   *)
(* residual blocks, the high-resolution fusion module, the HRNet backbone  *)
(* and the ROMPv1 head.  Tensors are modelled by their shape (channels,    *)
(* height, width) together with the part of their value a property needs.  *)
(***************************************************************************)
EXTENDS Integers, Sequences, FiniteSets, TLC

VARIABLES
    \* ---- get_coord_maps(size) ----
    cpc,          \* position inside get_coord_maps
    size,         \* the argument
    xx_channel,   \* [row][col] -> value
    yy_channel,   \* [row][col] -> value
    out,          \* <<channel 0, channel 1>> after torch.cat
    cell_read,    \* the element of `out` a caller has indexed last
    \* ---- one residual block, built and called on its own ----
    bpc,          \* "none", "constructed", "returned" or "raised"
    block,        \* the constructed BasicBlock / Bottleneck
    bx,           \* the tensor passed to block.forward
    bout,         \* what block.forward returned (or the error it raised)
    \* ---- HighResolutionModule.forward ----
    mpc,          \* "entered", "branches", "fuse", "returned" or "raised"
    mod,          \* the module being run
    mx,           \* the list x, overwritten in place by the branch loop
    mx_in,        \* the list as it was passed in
    x_fuse,       \* the list being returned
    bi,           \* loop index i of the running loop (1-based)
    branch_runs,  \* how many branches have produced their output in this call
    fuse_log,     \* per computed target: the terms summed, in order
    \* ---- the ROMPv1 instance and ROMPv1.forward ----
    pc,           \* "constructed", "ready", position in forward, "returned", "raised"
    model,        \* the ROMPv1 instance: its layers, as the constructor built them
    state_dict,   \* the parameters and buffers of the instance
    coordmaps,    \* self.coordmaps
    image,        \* the argument of the running / last call
    xt,           \* the tensor x of HigherResolutionNet.forward
    y_list,       \* the list the last stage returned
    stage,        \* which stage is running: 1, 2, 3 for stage2, stage3, stage4
    mi,           \* which module of the stage is running
    norm_stat,    \* the statistic batch normalisation used in this call
    returned,     \* what the last call returned
    prev,         \* the call before it: its argument and what it returned
    state_before, \* state_dict and coordmaps as the running call found them
    ncalls        \* calls made so far

coordVars == <<cpc, size, xx_channel, yy_channel, out, cell_read>>
blockVars == <<bpc, block, bx, bout>>
modVars == <<mpc, mod, mx, mx_in, x_fuse, bi, branch_runs, fuse_log>>

netVars == <<pc, model, state_dict, coordmaps, image, xt, y_list, stage, mi,
             norm_stat, returned, prev, state_before, ncalls>>

vars == <<coordVars, blockVars, modVars, netVars>>

\* ------------------------------------------------------------------ bounds
MaxSize == 7
MaxPlanes == 3
MinHW == 2
MaxHW == 4
MaxBranches == 3
MaxBlocks == 2
MaxCalls == 2
MaxRaw == 2

\* ------------------------------------------------------- float arithmetic
\* A float is kept as an exact fraction num/den (den > 0); den = 0 is the
\* result of a division by zero: nan for 0/0, +-inf otherwise.
Frac(n, d) == [num |-> n, den |-> d]

IsNaN(v) == v.den = 0 /\ v.num = 0

\* t.float() / d   for an integer element t and a Python int d
FloatDiv(t, d) ==
    IF d = 0 THEN Frac(IF t = 0 THEN 0 ELSE IF t > 0 THEN 1 ELSE -1, 0)
    ELSE IF d < 0 THEN Frac(-t, -d)
    ELSE Frac(t, d)

\* v * 2 - 1
Times2Minus1(v) ==
    IF v.den = 0 THEN v ELSE Frac(2 * v.num - v.den, v.den)

FracEq(v, k) == v.den > 0 /\ v.num = k * v.den
FracInUnit(v) == v.den > 0 /\ -v.den <= v.num /\ v.num <= v.den

\* ---------------------------------------------------------- get_coord_maps
Idx(n) == 0 .. (n - 1)

\* torch.matmul of an [n,1] and a [1,n] integer matrix
MatMulOuter(col, row, n) ==
    [r \in Idx(n) |-> [c \in Idx(n) |-> col[r] * row[c]]]

Ones(n) == [k \in Idx(n) |-> 1]
ARange(n) == [k \in Idx(n) |-> k]

XXMatMul_RowIndex(n) == MatMulOuter(ARange(n), Ones(n), n)

\* lines 9-16: xx_ones [1,size,1] times xx_range [1,1,size]
XXMatMul(n) == MatMulOuter(Ones(n), ARange(n), n)

\* lines 18-25: yy_range [1,size,1] times yy_ones [1,1,size]
YYMatMul(n) == MatMulOuter(ARange(n), Ones(n), n)

\* lines 30-31, elementwise
DivBySizeMinus1(m, n) ==
    [r \in Idx(n) |-> [c \in Idx(n) |-> FloatDiv(m[r][c], n - 1)]]

\* lines 33-34, elementwise
ScaleToUnit(m, n) ==
    [r \in Idx(n) |-> [c \in Idx(n) |-> Times2Minus1(m[r][c])]]


\* ------------------------------------------------------------- optionals
\* Python's None and a present value
None == <<>>
Some(v) == <<v>>
IsNone(o) == Len(o) = 0
Get(o) == o[1]

Max(a, b) == IF a >= b THEN a ELSE b

\* F applied to the value of e, with e evaluated once
With(e, F(_)) == CHOOSE r \in {F(v) : v \in {e}} : TRUE

RECURSIVE Pow(_, _)
Pow(base, e) == IF e <= 0 THEN 1 ELSE base * Pow(base, e - 1)

\* ---------------------------------------------------------------- tensors
\* A BCHW tensor: its shape and the number of layers on the longest path
\* that produced it.  ok = FALSE is the exception an operation raised.
Tensor(b, c, h, w) ==
    [ok |-> TRUE, b |-> b, c |-> c, h |-> h, w |-> w, depth |-> 0, at |-> ""]

Raise(where) ==
    [ok |-> FALSE, b |-> 0, c |-> 0, h |-> 0, w |-> 0, depth |-> 0, at |-> where]

Shape(t) == <<t.b, t.c, t.h, t.w>>

\* ----------------------------------------------------------------- layers
Layer(op, cin, cout, k, s, p) ==
    [op |-> op, cin |-> cin, cout |-> cout, k |-> k, s |-> s, p |-> p]

Conv2d(cin, cout, k, s, p) == Layer("conv", cin, cout, k, s, p)
BatchNorm2d(n) == Layer("bn", n, n, 0, 0, 0)
ReLU == Layer("relu", 0, 0, 0, 0, 0)
Upsample(scale) == Layer("up", 0, 0, 0, scale, 0)

conv3x3(in_planes, out_planes, stride) ==
    Conv2d(in_planes, out_planes, 3, stride, 1)

\* nn.Module.__init__ sets training = True; nothing in the file calls eval()
Training == TRUE

ConvOut(n, l) == ((n + 2 * l.p - l.k) \div l.s) + 1

ApplyLayer(l, t0) == With(t0, LAMBDA t :
    IF ~t.ok THEN t
    ELSE IF l.op = "conv" THEN
        IF t.c # l.cin \/ ConvOut(t.h, l) < 1 \/ ConvOut(t.w, l) < 1
        THEN Raise("conv")
        ELSE [t EXCEPT !.c = l.cout, !.h = ConvOut(t.h, l),
                       !.w = ConvOut(t.w, l), !.depth = @ + 1]
    ELSE IF l.op = "bn" THEN
        \* in training mode one value per channel cannot be normalised
        IF t.c # l.cin \/ (Training /\ t.b * t.h * t.w = 1)
        THEN Raise("bn")
        ELSE [t EXCEPT !.depth = @ + 1]
    ELSE IF l.op = "up" THEN
        [t EXCEPT !.h = @ * l.s, !.w = @ * l.s, !.depth = @ + 1]
    ELSE [t EXCEPT !.depth = @ + 1])

\* nn.Sequential
RECURSIVE ApplySeq(_, _)
ApplySeq(ls, t) ==
    IF ls = <<>> THEN t ELSE ApplySeq(Tail(ls), ApplyLayer(Head(ls), t))

DimFits(a, b) == a = b \/ a = 1

\* out += residual : the right operand must broadcast to the left one
InplaceAdd(o0, r0) == With(<<o0, r0>>, LAMBDA p :
    LET o == p[1]
        r == p[2]
    IN
    IF ~o.ok THEN o
    ELSE IF ~r.ok THEN r
    ELSE IF DimFits(r.b, o.b) /\ DimFits(r.c, o.c)
            /\ DimFits(r.h, o.h) /\ DimFits(r.w, o.w)
    THEN [o EXCEPT !.depth = Max(o.depth, r.depth) + 1]
    ELSE Raise("add"))

DimsMeet(a, b) == a = b \/ a = 1 \/ b = 1

\* y + x : broadcasting in both directions
Add(y0, x0) == With(<<y0, x0>>, LAMBDA p :
    LET y == p[1]
        x == p[2]
    IN
    IF ~y.ok THEN y
    ELSE IF ~x.ok THEN x
    ELSE IF DimsMeet(y.b, x.b) /\ DimsMeet(y.c, x.c)
            /\ DimsMeet(y.h, x.h) /\ DimsMeet(y.w, x.w)
    THEN [ok |-> TRUE, b |-> Max(y.b, x.b), c |-> Max(y.c, x.c),
          h |-> Max(y.h, x.h), w |-> Max(y.w, x.w),
          depth |-> Max(y.depth, x.depth) + 1, at |-> ""]
    ELSE Raise("add"))

\* ------------------------------------------------------- residual blocks
Expansion(type) == IF type = "BOTTLENECK" THEN 4 ELSE 1

\* BasicBlock.__init__ : no check of its arguments
BasicBlock(inplanes, planes, stride, downsample) ==
    [type |-> "BASIC", inplanes |-> inplanes, planes |-> planes,
     stride |-> stride, downsample |-> downsample,
     path |-> <<conv3x3(inplanes, planes, stride), BatchNorm2d(planes), ReLU,
                conv3x3(planes, planes, 1), BatchNorm2d(planes)>>]

\* Bottleneck.__init__ : no check of its arguments
Bottleneck(inplanes, planes, stride, downsample) ==
    [type |-> "BOTTLENECK", inplanes |-> inplanes, planes |-> planes,
     stride |-> stride, downsample |-> downsample,
     path |-> <<Conv2d(inplanes, planes, 1, 1, 0), BatchNorm2d(planes), ReLU,
                Conv2d(planes, planes, 3, stride, 1), BatchNorm2d(planes), ReLU,
                Conv2d(planes, planes * Expansion("BOTTLENECK"), 1, 1, 0),
                BatchNorm2d(planes * Expansion("BOTTLENECK"))>>]

\* blocks_dict[type](inplanes, planes, stride, downsample)
MakeBlock(type, inplanes, planes, stride, downsample) ==
    IF type = "BOTTLENECK"
    THEN Bottleneck(inplanes, planes, stride, downsample)
    ELSE BasicBlock(inplanes, planes, stride, downsample)

BlockForward_NoResidual(blk, x) ==
    ApplyLayer(ReLU, ApplySeq(blk.path, x))

\* BasicBlock.forward / Bottleneck.forward
BlockForward(blk, x0) == With(x0, LAMBDA x :
    LET o == ApplySeq(blk.path, x)
        residual == IF IsNone(blk.downsample) THEN x
                    ELSE ApplySeq(Get(blk.downsample), x)
    IN  ApplyLayer(ReLU, InplaceAdd(o, residual)))

\* nn.Sequential of blocks
RECURSIVE ApplyBlocks(_, _)
ApplyBlocks(bs, t) ==
    IF bs = <<>> THEN t ELSE ApplyBlocks(Tail(bs), BlockForward(Head(bs), t))

\* the 1x1 projection the builders pass as `downsample`
Projection(inplanes, outplanes, stride) ==
    <<Conv2d(inplanes, outplanes, 1, stride, 0), BatchNorm2d(outplanes)>>


\* ------------------------------------------------ HighResolutionModule
\* _make_one_branch (branch_index i, 1-based here)
MakeOneBranch(num_inchannels, i, type, num_blocks, num_channels, stride) ==
    LET outc == num_channels[i] * Expansion(type)
        downsample ==
            IF stride # 1 \/ num_inchannels[i] # outc
            THEN Some(Projection(num_inchannels[i], outc, stride))
            ELSE None
    IN  <<MakeBlock(type, num_inchannels[i], num_channels[i], stride, downsample)>>
        \o [k \in 1 .. (num_blocks[i] - 1) |->
               MakeBlock(type, outc, num_channels[i], 1, None)]

\* _make_branches
MakeBranches(num_branches, type, num_blocks, num_channels, num_inchannels) ==
    [i \in 1 .. num_branches |->
        MakeOneBranch(num_inchannels, i, type, num_blocks, num_channels, 1)]

\* self.num_inchannels after _make_branches: each built branch overwrote its entry
InchannelsAfterBranches(num_branches, type, num_channels, num_inchannels) ==
    [i \in 1 .. Len(num_inchannels) |->
        IF i <= num_branches THEN num_channels[i] * Expansion(type)
        ELSE num_inchannels[i]]

\* the cascade of i-j stride-2 3x3 convolutions that brings branch j down to i
RECURSIVE DownCascade(_, _, _)
DownCascade(cj, ci, n) ==
    IF n <= 0 THEN <<>>
    ELSE IF n = 1 THEN <<Conv2d(cj, ci, 3, 2, 1), BatchNorm2d(ci)>>
    ELSE <<Conv2d(cj, cj, 3, 2, 1), BatchNorm2d(cj), ReLU>>
         \o DownCascade(cj, ci, n - 1)

FuseLayer_NoProjection(num_inchannels, i, j) ==
    IF j > i THEN Some(<<Upsample(Pow(2, j - i))>>)
    ELSE IF j = i THEN None
    ELSE Some(DownCascade(num_inchannels[j], num_inchannels[i], i - j))

\* fuse_layers[i][j]
FuseLayer(num_inchannels, i, j) ==
    IF j > i
    THEN Some(<<Conv2d(num_inchannels[j], num_inchannels[i], 1, 1, 0),
                BatchNorm2d(num_inchannels[i]),
                Upsample(Pow(2, j - i))>>)
    ELSE IF j = i THEN None
    ELSE Some(DownCascade(num_inchannels[j], num_inchannels[i], i - j))

MakeFuseLayers_NoSingleCheck(num_branches, num_inchannels, multi_scale_output) ==
    Some([i \in 1 .. (IF multi_scale_output THEN num_branches ELSE 1) |->
             [j \in 1 .. num_branches |-> FuseLayer(num_inchannels, i, j)]])

\* _make_fuse_layers
MakeFuseLayers(num_branches, num_inchannels, multi_scale_output) ==
    IF num_branches = 1 THEN None
    ELSE Some([i \in 1 .. (IF multi_scale_output THEN num_branches ELSE 1) |->
                  [j \in 1 .. num_branches |-> FuseLayer(num_inchannels, i, j)]])

\* HighResolutionModule.__init__
HighResolutionModule(num_branches, type, num_blocks, inch, num_channels, fuse_method, mso) ==
    LET num_inchannels == InchannelsAfterBranches(num_branches, type,
                                                  num_channels, inch)
    IN  [num_branches |-> num_branches,
         num_inchannels |-> num_inchannels,
         fuse_method |-> fuse_method,
         multi_scale_output |-> mso,
         branches |-> MakeBranches(num_branches, type, num_blocks,
                                   num_channels, inch),
         fuse_layers |-> MakeFuseLayers(num_branches, num_inchannels, mso)]

\* forward, first loop: x[i] = self.branches[i](x[i])
ModuleBranch(m, x, i) == ApplyBlocks(m.branches[i], x[i])

\* forward, the term branch j contributes to target i
FuseTerm(m, x, i, j) ==
    IF i = j THEN x[j]
    ELSE ApplySeq(Get(Get(m.fuse_layers)[i][j]), x[j])

\* forward, inner loop: y = term 0; y = y + term j for j = 1 .. num_branches-1
RECURSIVE FuseSum(_, _, _, _)
FuseSum(m, x, i, j) ==
    IF j = 1 THEN FuseTerm(m, x, i, 1)
    ELSE Add(FuseSum(m, x, i, j - 1), FuseTerm(m, x, i, j))

\* forward, x_fuse.append(self.relu(y))
ModuleFuse(m, x, i) == ApplyLayer(ReLU, FuseSum(m, x, i, m.num_branches))


\* ------------------------------------------------- HigherResolutionNet
TransitionCascade_Stride1(inchannels, last_outchannels, n) ==
    [k \in 1 .. (3 * n) |->
        IF k % 3 = 1
        THEN Conv2d(inchannels, IF k = 3 * n - 2 THEN last_outchannels
                                ELSE inchannels, 3, 1, 1)
        ELSE IF k % 3 = 2
        THEN BatchNorm2d(IF k = 3 * n - 1 THEN last_outchannels ELSE inchannels)
        ELSE ReLU]

\* the chain of stride-2 convolutions that makes a new, lower branch
RECURSIVE TransitionCascade(_, _, _)
TransitionCascade(inchannels, last_outchannels, n) ==
    IF n <= 0 THEN <<>>
    ELSE IF n = 1
    THEN <<Conv2d(inchannels, last_outchannels, 3, 2, 1),
           BatchNorm2d(last_outchannels), ReLU>>
    ELSE <<Conv2d(inchannels, inchannels, 3, 2, 1),
           BatchNorm2d(inchannels), ReLU>>
         \o TransitionCascade(inchannels, last_outchannels, n - 1)

MakeTransitionLayer_KeepChannels(pre, cur) ==
    [i \in 1 .. Len(cur) |->
        IF i <= Len(pre) THEN None
        ELSE Some(TransitionCascade(pre[Len(pre)], pre[Len(pre)], i - Len(pre)))]

\* _make_transition_layer
MakeTransitionLayer(pre, cur) ==
    [i \in 1 .. Len(cur) |->
        IF i <= Len(pre)
        THEN IF cur[i] # pre[i]
             THEN Some(<<Conv2d(pre[i], cur[i], 3, 1, 1),
                         BatchNorm2d(cur[i]), ReLU>>)
             ELSE None
        ELSE Some(TransitionCascade(pre[Len(pre)], cur[i], i - Len(pre)))]

\* _make_layer
MakeLayer(type, inplanes, planes, blocks, stride) ==
    LET outc == planes * Expansion(type)
        downsample == IF stride # 1 \/ inplanes # outc
                      THEN Some(Projection(inplanes, outc, stride))
                      ELSE None
    IN  <<MakeBlock(type, inplanes, planes, stride, downsample)>>
        \o [k \in 1 .. (blocks - 1) |-> MakeBlock(type, outc, planes, 1, None)]

StageModules_AllMultiScale(cfg, num_inchannels, multi_scale_output, i) ==
    [k \in 1 .. cfg.NUM_MODULES |->
        HighResolutionModule(cfg.NUM_BRANCHES, cfg.BLOCK, cfg.NUM_BLOCKS,
                             num_inchannels, cfg.NUM_CHANNELS,
                             cfg.FUSE_METHOD, TRUE)]

\* _make_stage, the loop from module i on
RECURSIVE StageModules(_, _, _, _)
StageModules(cfg, num_inchannels, multi_scale_output, i) ==
    IF i > cfg.NUM_MODULES THEN <<>>
    ELSE LET reset_multi_scale_output ==
                 ~(~multi_scale_output /\ i = cfg.NUM_MODULES)
         IN  With(HighResolutionModule(cfg.NUM_BRANCHES, cfg.BLOCK,
                                       cfg.NUM_BLOCKS, num_inchannels,
                                       cfg.NUM_CHANNELS, cfg.FUSE_METHOD,
                                       reset_multi_scale_output),
                  LAMBDA m : <<m>> \o StageModules(cfg, m.num_inchannels,
                                                   multi_scale_output, i + 1))

\* _make_stage: (the modules, num_inchannels of the last one)
MakeStage(cfg, num_inchannels, multi_scale_output) ==
    With(StageModules(cfg, num_inchannels, multi_scale_output, 1),
         LAMBDA ms : [modules |-> ms,
                      num_inchannels |-> IF ms = <<>> THEN num_inchannels
                                         ELSE ms[Len(ms)].num_inchannels])

stage2_cfg ==
    [NUM_MODULES |-> 1, NUM_BRANCHES |-> 2, BLOCK |-> "BASIC",
     NUM_BLOCKS |-> <<4, 4>>, NUM_CHANNELS |-> <<32, 64>>,
     FUSE_METHOD |-> "SUM"]

stage3_cfg ==
    [NUM_MODULES |-> 4, NUM_BRANCHES |-> 3, BLOCK |-> "BASIC",
     NUM_BLOCKS |-> <<4, 4, 4>>, NUM_CHANNELS |-> <<32, 64, 128>>,
     FUSE_METHOD |-> "SUM"]

stage4_cfg ==
    [NUM_MODULES |-> 3, NUM_BRANCHES |-> 4, BLOCK |-> "BASIC",
     NUM_BLOCKS |-> <<4, 4, 4, 4>>, NUM_CHANNELS |-> <<32, 64, 128, 256>>,
     FUSE_METHOD |-> "SUM"]

\* num_channels[i] * block.expansion for every branch of a configuration
ExpandedChannels(cfg) ==
    [i \in 1 .. Len(cfg.NUM_CHANNELS) |->
        cfg.NUM_CHANNELS[i] * Expansion(cfg.BLOCK)]

\* HigherResolutionNet.__init__ with make_baseline
HigherResolutionNet ==
    LET nc2 == ExpandedChannels(stage2_cfg)
        s2 == MakeStage(stage2_cfg, nc2, TRUE)
        nc3 == ExpandedChannels(stage3_cfg)
        s3 == MakeStage(stage3_cfg, nc3, TRUE)
        nc4 == ExpandedChannels(stage4_cfg)
        s4 == MakeStage(stage4_cfg, nc4, FALSE)
    IN  [stem |-> <<Conv2d(3, 64, 3, 2, 1), BatchNorm2d(64), ReLU,
                    Conv2d(64, 64, 3, 2, 1), BatchNorm2d(64), ReLU>>,
         layer1 |-> MakeLayer("BOTTLENECK", 64, 64, 4, 1),
         cfg |-> <<stage2_cfg, stage3_cfg, stage4_cfg>>,
         transition |-> <<MakeTransitionLayer(<<256>>, nc2),
                          MakeTransitionLayer(s2.num_inchannels, nc3),
                          MakeTransitionLayer(s3.num_inchannels, nc4)>>,
         pre_stage_channels |-> <<<<256>>, s2.num_inchannels, s3.num_inchannels>>,
         stage |-> <<s2.modules, s3.modules, s4.modules>>,
         backbone_channels |-> 32]

\* x.unsqueeze(1).transpose(1, -1).squeeze(-1) on the dimensions of x
BHWC_to_BCHW(dims) ==
    LET unsq == <<dims[1], 1>> \o SubSeq(dims, 2, Len(dims))
        n == Len(unsq)
        tr == [k \in 1 .. n |-> IF k = 2 THEN unsq[n]
                                ELSE IF k = n THEN unsq[2] ELSE unsq[k]]
    IN  IF tr[n] = 1 THEN SubSeq(tr, 1, n - 1) ELSE tr

\* HigherResolutionNet.forward, lines 384-390
StemForward(net, img) ==
    LET d == BHWC_to_BCHW(<<img.b, img.h, img.w, img.c>>)
    IN  IF Len(d) # 4 THEN Raise("conv")
        ELSE ApplySeq(net.stem, Tensor(d[1], d[2], d[3], d[4]))

\* HigherResolutionNet.forward, the x_list loop before stage k (k = 1, 2, 3
\* for stage2, stage3, stage4); `x` is layer1's output for k = 1
TransitionForward(net, k, x, ys) ==
    [i \in 1 .. net.cfg[k].NUM_BRANCHES |->
        IF ~IsNone(net.transition[k][i])
        THEN ApplySeq(Get(net.transition[k][i]),
                      IF k = 1 THEN x ELSE ys[Len(ys)])
        ELSE IF k = 1 THEN x
        ELSE IF i <= Len(ys) THEN ys[i] ELSE Raise("index")]

\* ---------------------------------------------------------------- ROMPv1
MakeHeadLayers_Stride1(head_cfg, input_channels, output_channels) ==
    [down |-> <<Conv2d(input_channels, head_cfg.NUM_CHANNELS, 3, 1, 1),
                BatchNorm2d(head_cfg.NUM_CHANNELS), ReLU>>,
     blocks |-> [k \in 1 .. (head_cfg.NUM_HEADS * head_cfg.NUM_BASIC_BLOCKS) |->
                    BasicBlock(head_cfg.NUM_CHANNELS, head_cfg.NUM_CHANNELS,
                               1, None)],
     final |-> Conv2d(head_cfg.NUM_CHANNELS, output_channels, 1, 1, 0)]

\* _make_head_layers
MakeHeadLayers(head_cfg, input_channels, output_channels) ==
    [down |-> <<Conv2d(input_channels, head_cfg.NUM_CHANNELS, 3, 2, 1),
                BatchNorm2d(head_cfg.NUM_CHANNELS), ReLU>>,
     blocks |-> [k \in 1 .. (head_cfg.NUM_HEADS * head_cfg.NUM_BASIC_BLOCKS) |->
                    BasicBlock(head_cfg.NUM_CHANNELS, head_cfg.NUM_CHANNELS,
                               1, None)],
     final |-> Conv2d(head_cfg.NUM_CHANNELS, output_channels, 1, 1, 0)]

HeadForward(hd, x) ==
    ApplyLayer(hd.final, ApplyBlocks(hd.blocks, ApplySeq(hd.down, x)))

\* the shape of get_coord_maps(size)
CoordMapsTensor(n) == Tensor(1, 2, n, n)

\* ROMPv1.__init__ with _build_head and _make_final_layers
ROMPv1 ==
    LET backbone == HigherResolutionNet
        params_num == 3 + 22 * 6 + 10
        cam_dim == 3
        head_cfg == [NUM_HEADS |-> 1, NUM_CHANNELS |-> 64, NUM_BASIC_BLOCKS |-> 2]
        output_cfg == [NUM_PARAMS_MAP |-> params_num - cam_dim,
                       NUM_CENTER_MAP |-> 1, NUM_CAM_MAP |-> cam_dim]
        input_channels == backbone.backbone_channels + 2
    IN  [backbone |-> backbone,
         outmap_size |-> 64,
         head_cfg |-> head_cfg,
         output_cfg |-> output_cfg,
         final_layers |->
             <<MakeHeadLayers(head_cfg, input_channels, output_cfg.NUM_PARAMS_MAP),
               MakeHeadLayers(head_cfg, input_channels, output_cfg.NUM_CENTER_MAP),
               MakeHeadLayers(head_cfg, input_channels, output_cfg.NUM_CAM_MAP)>>]

\* tensor.repeat(n, 1, 1, 1)
Repeat(t, n) == [t EXCEPT !.b = @ * n]

\* torch.cat((a, b), 1)
Cat1(a0, b0) == With(<<a0, b0>>, LAMBDA p :
    LET a == p[1]
        b == p[2]
    IN
    IF ~a.ok THEN a
    ELSE IF ~b.ok THEN b
    ELSE IF a.b # b.b \/ a.h # b.h \/ a.w # b.w THEN Raise("cat")
    ELSE [a EXCEPT !.c = a.c + b.c, !.depth = Max(a.depth, b.depth) + 1])


\* ------------------------------------------------------ values, abstracted
\* An image is summarised by two of its pixels, each at an intensity level;
\* the network's arithmetic by one batch normalisation (standing for every
\* BatchNorm2d of the instance, all in the same mode) and one affine head.
Levels == {0, 1}

Image(b, n, p, q) == [b |-> b, h |-> n, w |-> n, c |-> 3, px |-> <<p, q>>]

\* 1 / BN_MOMENTUM
MomentumInv == 10

PixelValue(p) == 2 * MomentumInv * p

\* the mean over the batch that batch normalisation computes in training mode
BatchMean(img) == (PixelValue(img.px[1]) + PixelValue(img.px[2])) \div 2

BatchNormStat_Running(sd, img) == sd.running_mean

\* BatchNorm2d.forward: the statistic the input is normalised with
BatchNormStat(sd, img) ==
    IF Training THEN BatchMean(img) ELSE sd.running_mean

\* BatchNorm2d.forward: the buffers after the call (momentum = BN_MOMENTUM)
BatchNormBuffers(sd, img) ==
    IF Training
    THEN [sd EXCEPT
            !.running_mean = @ + ((BatchMean(img) - @) \div MomentumInv),
            !.num_batches_tracked = @ + 1]
    ELSE sd

\* the feature value the heads see
Feature(img, stat) == (PixelValue(img.px[1]) - stat) \div MomentumInv

\* the raw value final_layers[k] puts out (1 params, 2 center, 3 cam)
HeadRaw(k, sd, ft) ==
    IF k = 1 THEN ft - sd.weight
    ELSE IF k = 2 THEN ft
    ELSE ft + sd.weight

HeadChannels(name, n, raw) ==
    [k \in 1 .. n |-> [head |-> name, idx |-> k - 1, val |-> Frac(raw, 1)]]

\* torch.pow(1.1, v) for an integer-valued v, exactly
Pow11(v) ==
    IF v.num >= 0 THEN Frac(Pow(11, v.num), Pow(10, v.num))
    ELSE Frac(Pow(10, -v.num), Pow(11, -v.num))

CamScale_SecondChannel(cam) == [cam EXCEPT ![2].val = Pow11(@)]

\* cam_maps[:, 0] = torch.pow(1.1, cam_maps[:, 0])
CamScale(cam) == [cam EXCEPT ![1].val = Pow11(@)]

\* params_maps = torch.cat([cam_maps, params_maps], 1)
ParamsCat(cam, params) ==
    [t |-> Cat1(cam.t, params.t), ch |-> cam.ch \o params.ch]

NoMaps == [t |-> Raise(""), ch |-> <<>>]

\* ROMPv1.forward, lines 473-481, on the backbone's output x
HeadsForward(romp, sd, coords, x, ft) ==
    LET xc == Cat1(x, Repeat(coords, x.b))
        pt == HeadForward(romp.final_layers[1], xc)
        ct == HeadForward(romp.final_layers[2], xc)
        mt == HeadForward(romp.final_layers[3], xc)
    IN  IF ~(pt.ok /\ ct.ok /\ mt.ok)
        THEN [ok |-> FALSE,
              at |-> IF ~xc.ok THEN xc.at ELSE IF ~pt.ok THEN pt.at
                     ELSE IF ~ct.ok THEN ct.at ELSE mt.at,
              center_maps |-> NoMaps, params_maps |-> NoMaps]
        ELSE LET params == [t |-> pt,
                            ch |-> HeadChannels("params", pt.c, HeadRaw(1, sd, ft))]
                 center == [t |-> ct,
                            ch |-> HeadChannels("center", ct.c, HeadRaw(2, sd, ft))]
                 cam == [t |-> mt,
                         ch |-> CamScale(HeadChannels("cam", mt.c, HeadRaw(3, sd, ft)))]
             IN  [ok |-> TRUE, at |-> "",
                  center_maps |-> center,
                  params_maps |-> ParamsCat(cam, params)]

\* ------------------------------------------- parts that are not running
CoordIdle ==
    /\ cpc = "idle"
    /\ size = 0
    /\ xx_channel = <<>>
    /\ yy_channel = <<>>
    /\ out = <<>>
    /\ cell_read = <<>>

BlockIdle ==
    /\ bpc = "idle"
    /\ block = None
    /\ bx = None
    /\ bout = None

ModIdle ==
    /\ mpc = "idle"
    /\ mod = None
    /\ mx = <<>>
    /\ mx_in = <<>>
    /\ x_fuse = <<>>
    /\ bi = 0
    /\ branch_runs = 0
    /\ fuse_log = <<>>

NetIdle ==
    /\ pc = "idle"
    /\ model = None
    /\ state_dict = <<>>
    /\ coordmaps = None
    /\ image = None
    /\ xt = None
    /\ y_list = <<>>
    /\ stage = 0
    /\ mi = 0
    /\ norm_stat = 0
    /\ returned = None
    /\ prev = None
    /\ state_before = None
    /\ ncalls = 0

\* ------------------------------------------------ get_coord_maps, stepwise
InitCoord ==
    /\ cpc = "start"
    /\ size \in 1 .. MaxSize
    /\ xx_channel = <<>>
    /\ yy_channel = <<>>
    /\ out = <<>>
    /\ cell_read = <<>>
    /\ BlockIdle
    /\ ModIdle
    /\ NetIdle

CoordMatMul ==
    /\ cpc = "start"
    /\ xx_channel' = XXMatMul(size)
    /\ yy_channel' = YYMatMul(size)
    /\ cpc' = "permuted"
    /\ UNCHANGED <<size, out, cell_read>>
    /\ UNCHANGED <<blockVars, modVars, netVars>>

CoordDivide ==
    /\ cpc = "permuted"
    /\ xx_channel' = DivBySizeMinus1(xx_channel, size)
    /\ yy_channel' = DivBySizeMinus1(yy_channel, size)
    /\ cpc' = "divided"
    /\ UNCHANGED <<size, out, cell_read>>
    /\ UNCHANGED <<blockVars, modVars, netVars>>

CoordScale ==
    /\ cpc = "divided"
    /\ xx_channel' = ScaleToUnit(xx_channel, size)
    /\ yy_channel' = ScaleToUnit(yy_channel, size)
    /\ cpc' = "scaled"
    /\ UNCHANGED <<size, out, cell_read>>
    /\ UNCHANGED <<blockVars, modVars, netVars>>

CoordCat ==
    /\ cpc = "scaled"
    /\ out' = <<xx_channel, yy_channel>>
    /\ cpc' = "returned"
    /\ UNCHANGED <<size, xx_channel, yy_channel, cell_read>>
    /\ UNCHANGED <<blockVars, modVars, netVars>>

\* a caller indexes out[0, ch, r, c]
CoordRead ==
    /\ cpc = "returned"
    /\ \E ch \in 1 .. 2, r \in Idx(size), c \in Idx(size) :
          cell_read' = <<ch - 1, r, c, out[ch][r][c]>>
    /\ UNCHANGED <<cpc, size, xx_channel, yy_channel, out>>
    /\ UNCHANGED <<blockVars, modVars, netVars>>

NextCoord ==
    \/ CoordMatMul
    \/ CoordDivide
    \/ CoordScale
    \/ CoordCat
    \/ CoordRead

SpecCoord == InitCoord /\ [][NextCoord]_vars

\* ------------------------------------- one residual block, built and called
BlockTypes == {"BASIC", "BOTTLENECK"}

InitBlock ==
    /\ bpc = "none"
    /\ block = None
    /\ bx = None
    /\ bout = None
    /\ CoordIdle
    /\ ModIdle
    /\ NetIdle

\* block(inplanes, planes, stride, downsample): __init__ runs to its end
BlockConstruct ==
    /\ bpc = "none"
    /\ \E type \in BlockTypes, inplanes \in 1 .. MaxPlanes,
          planes \in 1 .. MaxPlanes, stride \in 1 .. 2, given \in BOOLEAN :
          block' = Some(MakeBlock(type, inplanes, planes, stride,
                          IF given
                          THEN Some(Projection(inplanes,
                                               planes * Expansion(type), stride))
                          ELSE None))
    /\ bpc' = "constructed"
    /\ UNCHANGED <<bx, bout>>
    /\ UNCHANGED <<coordVars, modVars, netVars>>

\* block(x) for an input with `inplanes` channels
BlockCall ==
    /\ bpc = "constructed"
    /\ \E h \in MinHW .. MaxHW, w \in MinHW .. MaxHW :
          LET x == Tensor(1, Get(block).inplanes, h, w)
              r == BlockForward(Get(block), x)
          IN  /\ bx' = Some(x)
              /\ bout' = Some(r)
              /\ bpc' = IF r.ok THEN "returned" ELSE "raised"
    /\ UNCHANGED block
    /\ UNCHANGED <<coordVars, modVars, netVars>>

NextBlock ==
    \/ BlockConstruct
    \/ BlockCall

SpecBlock == InitBlock /\ [][NextBlock]_vars

\* ------------------------------------ HighResolutionModule.forward, stepwise
\* line 227-228, and the entry into the branch loop
ModBegin ==
    /\ mpc = "entered"
    /\ IF Get(mod).num_branches = 1
       THEN LET r == IF Len(mx) < 1 THEN Raise("index")
                     ELSE ModuleBranch(Get(mod), mx, 1)
            IN  /\ x_fuse' = <<r>>
                /\ mpc' = IF r.ok THEN "returned" ELSE "raised"
                /\ bi' = 0
       ELSE /\ x_fuse' = <<>>
            /\ mpc' = "branches"
            /\ bi' = 1
    /\ UNCHANGED <<mod, mx, mx_in, branch_runs, fuse_log>>

\* lines 230-231, one iteration
ModBranchStep ==
    /\ mpc = "branches"
    /\ LET r == IF Len(mx) < bi THEN Raise("index")
                ELSE ModuleBranch(Get(mod), mx, bi)
       IN  IF ~r.ok
           THEN /\ mpc' = "raised"
                /\ x_fuse' = <<r>>
                /\ UNCHANGED <<mx, bi, branch_runs>>
           ELSE /\ mx' = [mx EXCEPT ![bi] = r]
                /\ branch_runs' = branch_runs + 1
                /\ IF bi = Get(mod).num_branches
                   THEN mpc' = "fuse" /\ bi' = 1
                   ELSE mpc' = "branches" /\ bi' = bi + 1
                /\ UNCHANGED x_fuse
    /\ UNCHANGED <<mod, mx_in, fuse_log>>

\* lines 235-242, one iteration of the outer loop
ModFuseStep ==
    /\ mpc = "fuse"
    /\ LET m == Get(mod)
           r == ModuleFuse(m, mx, bi)
       IN  /\ fuse_log' = Append(fuse_log,
                   [i |-> bi,
                    branches_done |-> branch_runs,
                    terms |-> [j \in 1 .. m.num_branches |-> FuseTerm(m, mx, bi, j)]])
           /\ IF ~r.ok
              THEN mpc' = "raised" /\ x_fuse' = <<r>> /\ UNCHANGED bi
              ELSE /\ x_fuse' = Append(x_fuse, r)
                   /\ IF bi = Len(Get(m.fuse_layers))
                      THEN mpc' = "returned" /\ UNCHANGED bi
                      ELSE mpc' = "fuse" /\ bi' = bi + 1
    /\ UNCHANGED <<mod, mx, mx_in, branch_runs>>

\* the channel counts handed to HighResolutionModule by a caller
ChannelLists(n) == [1 .. n -> 1 .. 2]

\* a feature pyramid: branch i has half the resolution of branch i-1
Pyramid(chans, top) ==
    [i \in 1 .. Len(chans) |->
        Tensor(1, chans[i], top \div Pow(2, i - 1), top \div Pow(2, i - 1))]

TopSize == Pow(2, MaxBranches + 1)

InitModule ==
    /\ \E n \in 1 .. MaxBranches, type \in BlockTypes, nb \in 1 .. MaxBlocks,
          ms \in BOOLEAN :
          \E inch \in ChannelLists(n), ch \in ChannelLists(n) :
             /\ mod = Some(HighResolutionModule(n, type, [i \in 1 .. n |-> nb],
                                                inch, ch, "SUM", ms))
             /\ mx = Pyramid(inch, TopSize)
    /\ mx_in = mx
    /\ mpc = "entered"
    /\ x_fuse = <<>>
    /\ bi = 0
    /\ branch_runs = 0
    /\ fuse_log = <<>>
    /\ CoordIdle
    /\ BlockIdle
    /\ NetIdle

NextModule ==
    \/ (ModBegin /\ UNCHANGED <<coordVars, blockVars, netVars>>)
    \/ (ModBranchStep /\ UNCHANGED <<coordVars, blockVars, netVars>>)
    \/ (ModFuseStep /\ UNCHANGED <<coordVars, blockVars, netVars>>)

SpecModule == InitModule /\ [][NextModule]_vars

\* ------------------------------------------ the ROMPv1 instance, stepwise
Images ==
    {Image(1, 512, p, q) : p \in Levels, q \in Levels}
    \cup {Image(2, 512, 0, 1), Image(1, 256, 0, 1), Image(1, 32, 1, 0)}

AllOk(ts) == \A i \in 1 .. Len(ts) : ts[i].ok

FirstError(ts) ==
    ts[CHOOSE i \in 1 .. Len(ts) :
           ~ts[i].ok /\ \A k \in 1 .. (i - 1) : ts[k].ok]

Failed(where) ==
    [ok |-> FALSE, at |-> where, center_maps |-> NoMaps, params_maps |-> NoMaps]

\* model = ROMPv1(): the instance as the constructor leaves it
Init ==
    /\ pc = "constructed"
    /\ model = ROMPv1
    /\ state_dict = [weight |-> 0, running_mean |-> 0, num_batches_tracked |-> 0]
    /\ coordmaps = Some(CoordMapsTensor(128))
    /\ image = None
    /\ xt = None
    /\ y_list = <<>>
    /\ stage = 0
    /\ mi = 0
    /\ norm_stat = 0
    /\ returned = None
    /\ prev = None
    /\ state_before = None
    /\ ncalls = 0
    /\ mpc = "idle"
    /\ mod = None
    /\ mx = <<>>
    /\ mx_in = <<>>
    /\ x_fuse = <<>>
    /\ bi = 0
    /\ branch_runs = 0
    /\ fuse_log = <<>>
    /\ CoordIdle
    /\ BlockIdle

\* model.load_state_dict(state_dict): the file decides the values
LoadStateDict ==
    /\ pc = "constructed"
    /\ \E w \in (-MaxRaw) .. MaxRaw :
          state_dict' = [weight |-> w, running_mean |-> 0,
                         num_batches_tracked |-> 0]
    /\ pc' = "ready"
    /\ UNCHANGED <<model, coordmaps, image, xt, y_list, stage, mi, norm_stat,
                   returned, prev, state_before, ncalls>>
    /\ UNCHANGED <<coordVars, blockVars, modVars>>

\* model(image)
FwdCall ==
    /\ pc \in {"ready", "returned", "raised"}
    /\ ncalls < MaxCalls
    /\ \E img \in Images : image' = Some(img)
    /\ prev' = IF pc = "ready" THEN None
               ELSE Some([image |-> Get(image), returned |-> Get(returned)])
    /\ state_before' = Some([state_dict |-> state_dict, coordmaps |-> coordmaps])
    /\ ncalls' = ncalls + 1
    /\ pc' = "stem"
    /\ returned' = None
    /\ UNCHANGED <<model, state_dict, coordmaps, xt, y_list, stage, mi, norm_stat>>
    /\ UNCHANGED <<coordVars, blockVars, modVars>>

\* HigherResolutionNet.forward, lines 384-390
FwdStem ==
    /\ pc = "stem"
    /\ LET x == StemForward(model.backbone, Get(image))
       IN  IF x.ok
           THEN /\ xt' = Some(x)
                /\ norm_stat' = BatchNormStat(state_dict, Get(image))
                /\ state_dict' = BatchNormBuffers(state_dict, Get(image))
                /\ pc' = "layer1"
                /\ UNCHANGED returned
           ELSE /\ returned' = Some(Failed(x.at))
                /\ pc' = "raised"
                /\ UNCHANGED <<xt, norm_stat, state_dict>>
    /\ UNCHANGED <<model, coordmaps, image, y_list, stage, mi, prev, state_before, ncalls>>
    /\ UNCHANGED <<coordVars, blockVars, modVars>>

\* line 391
FwdLayer1 ==
    /\ pc = "layer1"
    /\ xt' = Some(ApplyBlocks(model.backbone.layer1, Get(xt)))
    /\ stage' = 1
    /\ pc' = "transition"
    /\ UNCHANGED <<model, state_dict, coordmaps, image, y_list, mi, norm_stat,
                   returned, prev, state_before, ncalls>>
    /\ UNCHANGED <<coordVars, blockVars, modVars>>

\* lines 393-398, 401-406, 409-414: the x_list of the next stage, and the
\* call of the stage's first module
FwdTransition ==
    /\ pc = "transition"
    /\ LET x_list == TransitionForward(model.backbone, stage, Get(xt), y_list)
       IN  IF AllOk(x_list)
           THEN /\ mx' = x_list
                /\ mx_in' = x_list
                /\ mod' = Some(model.backbone.stage[stage][1])
                /\ mi' = 1
                /\ mpc' = "entered"
                /\ pc' = "stage"
                /\ UNCHANGED returned
           ELSE /\ returned' = Some(Failed(FirstError(x_list).at))
                /\ pc' = "raised"
                /\ UNCHANGED <<mx, mx_in, mod, mi, mpc>>
    /\ x_fuse' = <<>>
    /\ bi' = 0
    /\ branch_runs' = 0
    /\ fuse_log' = <<>>
    /\ UNCHANGED <<model, state_dict, coordmaps, image, xt, y_list, stage, norm_stat,
                   prev, state_before, ncalls>>
    /\ UNCHANGED <<coordVars, blockVars>>

\* nn.Sequential over the modules of a stage: the list a module returned goes
\* to the next one; the last one's is the stage's y_list (lines 399, 407, 415)
StageNextModule ==
    /\ pc = "stage"
    /\ mpc \in {"returned", "raised"}
    /\ IF mpc = "raised"
       THEN /\ returned' = Some(Failed(x_fuse[1].at))
            /\ pc' = "raised"
            /\ mpc' = "idle"
            /\ UNCHANGED <<mod, mx, mx_in, x_fuse, bi, branch_runs, fuse_log,
                           y_list, stage, mi>>
       ELSE IF mi < Len(model.backbone.stage[stage])
       THEN /\ mod' = Some(model.backbone.stage[stage][mi + 1])
            /\ mi' = mi + 1
            /\ mx' = x_fuse
            /\ mx_in' = x_fuse
            /\ x_fuse' = <<>>
            /\ bi' = 0
            /\ branch_runs' = 0
            /\ fuse_log' = <<>>
            /\ mpc' = "entered"
            /\ UNCHANGED <<pc, y_list, stage, returned>>
       ELSE /\ y_list' = x_fuse
            /\ mpc' = "idle"
            /\ IF stage < Len(model.backbone.stage)
               THEN pc' = "transition" /\ stage' = stage + 1
               ELSE pc' = "head" /\ UNCHANGED stage
            /\ UNCHANGED <<mod, mx, mx_in, x_fuse, bi, branch_runs, fuse_log,
                           mi, returned>>
    /\ UNCHANGED <<model, state_dict, coordmaps, image, xt, norm_stat, prev,
                   state_before, ncalls>>
    /\ UNCHANGED <<coordVars, blockVars>>

\* line 416 and ROMPv1.forward, lines 473-481
FwdHead ==
    /\ pc = "head"
    /\ LET x == y_list[1]
           r == HeadsForward(model, state_dict, Get(coordmaps), x,
                             Feature(Get(image), norm_stat))
       IN  /\ xt' = Some(x)
           /\ returned' = Some(r)
           /\ pc' = IF r.ok THEN "returned" ELSE "raised"
    /\ UNCHANGED <<model, state_dict, coordmaps, image, y_list, stage, mi, norm_stat,
                   prev, state_before, ncalls>>
    /\ UNCHANGED <<coordVars, blockVars, modVars>>

Next ==
    \/ LoadStateDict
    \/ FwdCall
    \/ FwdStem
    \/ FwdLayer1
    \/ FwdTransition
    \/ (ModBegin /\ UNCHANGED <<coordVars, blockVars, netVars>>)
    \/ (ModBranchStep /\ UNCHANGED <<coordVars, blockVars, netVars>>)
    \/ (ModFuseStep /\ UNCHANGED <<coordVars, blockVars, netVars>>)
    \/ StageNextModule
    \/ FwdHead

Spec == Init /\ [][Next]_vars

\* ------------------------------- the backbone on images of other sizes
\* heights and widths that are and are not multiples of 32
BackboneImages ==
    Images \cup {Image(1, 64, 0, 1), Image(1, 62, 0, 1), Image(1, 48, 0, 1),
                 Image(1, 40, 0, 1), Image(2, 40, 1, 0)}

\* model(image), once, on the loaded instance
BackboneCall ==
    /\ pc = "ready"
    /\ \E img \in BackboneImages : image' = Some(img)
    /\ prev' = None
    /\ state_before' = Some([state_dict |-> state_dict, coordmaps |-> coordmaps])
    /\ ncalls' = ncalls + 1
    /\ pc' = "stem"
    /\ returned' = None
    /\ UNCHANGED <<model, state_dict, coordmaps, xt, y_list, stage, mi, norm_stat>>
    /\ UNCHANGED <<coordVars, blockVars, modVars>>

NextBackbone ==
    \/ LoadStateDict
    \/ BackboneCall
    \/ FwdStem
    \/ FwdLayer1
    \/ FwdTransition
    \/ (ModBegin /\ UNCHANGED <<coordVars, blockVars, netVars>>)
    \/ (ModBranchStep /\ UNCHANGED <<coordVars, blockVars, netVars>>)
    \/ (ModFuseStep /\ UNCHANGED <<coordVars, blockVars, netVars>>)
    \/ StageNextModule
    \/ FwdHead

SpecBackbone == Init /\ [][NextBackbone]_vars

\* shape of the returned tensor: (1, 2, rows, cols)
OutShape ==
    <<1, Len(out),
      Cardinality(DOMAIN out[1]),
      IF size = 0 THEN 0 ELSE Cardinality(DOMAIN out[1][0])>>

\* C2 (as stated): for any grid size N the returned map has shape (1,2,N,N),
\* channel 0 depends only on the column and channel 1 only on the row, every
\* value lies in [-1,1], channel 0 is -1 at column 0 and +1 at column N-1,
\* channel 1 is -1 at row 0 and +1 at row N-1.
CoordMapProperty ==
    /\ OutShape = <<1, 2, size, size>>
    /\ \A r1 \in Idx(size), r2 \in Idx(size), c \in Idx(size) :
          out[1][r1][c] = out[1][r2][c]
    /\ \A r \in Idx(size), c1 \in Idx(size), c2 \in Idx(size) :
          out[2][r][c1] = out[2][r][c2]
    /\ \A r \in Idx(size), c \in Idx(size) :
          FracInUnit(out[1][r][c]) /\ FracInUnit(out[2][r][c])
    /\ \A r \in Idx(size) :
          FracEq(out[1][r][0], -1) /\ FracEq(out[1][r][size - 1], 1)
    /\ \A c \in Idx(size) :
          FracEq(out[2][0][c], -1) /\ FracEq(out[2][size - 1][c], 1)

C2_CoordMapAnySize == cpc = "returned" => CoordMapProperty

\* C2 (amended): the same, for every grid size N >= 2.
C2_CoordMapSizeAtLeast2 ==
    (cpc = "returned" /\ size >= 2) => CoordMapProperty

C2_Witness ==
    /\ cpc = "returned"
    /\ size >= 3
    /\ cell_read # <<>>
    /\ cell_read[1] = 0 /\ cell_read[3] = size - 1
    /\ FracEq(cell_read[4], 1)

\* ================================================================ C1
IsStandardImage(img) == img.b = 1 /\ img.h = 512 /\ img.w = 512 /\ img.c = 3

CallEnded == pc \in {"returned", "raised"}

\* C1 (as stated): one image of shape (1,512,512,3) through ROMPv1.forward
\* returns a center map of shape (1,1,64,64) and a parameter map of shape
\* (1, 22*6+10, 64, 64), 142 channels.
C1_ParamsMapHas142Channels ==
    (CallEnded /\ IsStandardImage(Get(image))) =>
        /\ pc = "returned"
        /\ Shape(Get(returned).center_maps.t) = <<1, 1, 64, 64>>
        /\ Shape(Get(returned).params_maps.t) = <<1, 22 * 6 + 10, 64, 64>>

\* C1 (amended): the call returns a center map of shape (1,1,64,64) and a
\* parameter map of shape (1, 3+22*6+10, 64, 64): 145 channels, the 3 camera
\* channels followed by the 142 of the parameter head.
C1_ParamsMapHas145Channels ==
    (CallEnded /\ IsStandardImage(Get(image))) =>
        /\ pc = "returned"
        /\ Shape(Get(returned).center_maps.t) = <<1, 1, 64, 64>>
        /\ Shape(Get(returned).params_maps.t) = <<1, 3 + 22 * 6 + 10, 64, 64>>
        /\ Len(Get(returned).params_maps.ch) = 145
        /\ Len(Get(returned).center_maps.ch) = 1

C1_Witness ==
    /\ pc = "returned"
    /\ IsStandardImage(Get(image))
    /\ Get(returned).ok
    /\ Get(returned).params_maps.t.c = 145

\* ================================================================ C3
\* C3: a forward pass of the constructed and loaded instance leaves every
\* piece of model state as it found it: weights, batch-normalisation
\* statistics and the stored coordinate map.
C3_ForwardLeavesStateUnchanged ==
    (pc = "returned") =>
        /\ state_dict = Get(state_before).state_dict
        /\ coordmaps = Get(state_before).coordmaps

\* ================================================================ C4
\* C4: two successive forward passes with the same input end the same way
\* and return the same center map and the same parameter map.
C4_SameInputSameOutput ==
    (CallEnded /\ ~IsNone(prev) /\ Get(prev).image = Get(image)) =>
        Get(prev).returned = Get(returned)

C4_Witness ==
    /\ pc = "returned"
    /\ ~IsNone(prev)
    /\ Get(prev).image = Get(image)
    /\ Get(prev).returned.ok
    /\ Get(returned).ok
    /\ state_dict # Get(state_before).state_dict

\* ================================================================ C5
\* v = 1.1 ^ r, by cross-multiplication
IsPow11(v, r) ==
    IF r >= 0 THEN v.num * Pow(10, r) = v.den * Pow(11, r)
    ELSE v.num * Pow(11, -r) = v.den * Pow(10, -r)

CamRaw == HeadRaw(3, state_dict, Feature(Get(image), norm_stat))
ParamsRaw == HeadRaw(1, state_dict, Feature(Get(image), norm_stat))

RECURSIVE OutChannels(_, _)
OutChannels(ls, cin) ==
    IF ls = <<>> THEN cin
    ELSE OutChannels(Tail(ls),
                     IF Head(ls).op = "conv" THEN Head(ls).cout ELSE cin)

Declared(k, i) ==
    model.backbone.cfg[k].NUM_CHANNELS[i] * Expansion(model.backbone.cfg[k].BLOCK)

\* C6: in every stage, branch i of every fusion module takes and gives
\* NUM_CHANNELS[i] * expansion channels, and that is what the transition
\* layer or the preceding stage feeding the branch puts out.
C6_BranchChannelsAsDeclared ==
    /\ \A k \in 1 .. 3 :
          LET net == model.backbone
              B == net.cfg[k].NUM_BRANCHES
          IN  /\ \A n \in 1 .. Len(net.stage[k]), i \in 1 .. B :
                    LET m == net.stage[k][n]
                    IN  /\ m.num_inchannels[i] = Declared(k, i)
                        /\ \A b \in 1 .. Len(m.branches[i]) :
                              /\ m.branches[i][b].inplanes = Declared(k, i)
                              /\ m.branches[i][b].planes
                                    * Expansion(m.branches[i][b].type) = Declared(k, i)
                              /\ IsNone(m.branches[i][b].downsample)
              /\ \A i \in 1 .. B :
                    IF IsNone(net.transition[k][i])
                    THEN net.pre_stage_channels[k][i] = Declared(k, i)
                    ELSE OutChannels(Get(net.transition[k][i]),
                             net.pre_stage_channels[k][Len(net.pre_stage_channels[k])])
                           = Declared(k, i)
    /\ (pc = "stage") =>
          /\ mpc # "raised"
          /\ Len(mx_in) = model.backbone.cfg[stage].NUM_BRANCHES
          /\ \A i \in 1 .. Len(mx_in) :
                mx_in[i].c = Declared(stage, i) /\ mx[i].c = Declared(stage, i)
          /\ \A i \in 1 .. Len(x_fuse) : x_fuse[i].c = Declared(stage, i)
    /\ (pc = "raised") => Get(returned).at \notin {"conv", "add", "index"}

C6_Witness ==
    /\ pc = "stage"
    /\ stage = 3
    /\ mi = 3
    /\ mpc = "returned"
    /\ mx[4].c = 256
    /\ x_fuse[1].c = 32

\* ================================================================ C7
Mismatch(blk) ==
    blk.inplanes # blk.planes * Expansion(blk.type) \/ blk.stride # 1

Unresolved(blk) == Mismatch(blk) /\ IsNone(blk.downsample)

\* the residual x can be added in place to the block's main path output
ResidualFits(blk, x) ==
    /\ DimFits(x.c, blk.planes * Expansion(blk.type))
    /\ DimFits(x.h, ((x.h - 1) \div blk.stride) + 1)
    /\ DimFits(x.w, ((x.w - 1) \div blk.stride) + 1)

MainPathRuns(blk, x) == ApplySeq(blk.path, x).ok

C8_SingleBranchNoFusion ==
    (~IsNone(mod) /\ Get(mod).num_branches = 1) =>
        /\ IsNone(Get(mod).fuse_layers)
        /\ mpc \in {"entered", "returned"}
        /\ (mpc = "returned") =>
              /\ Len(x_fuse) = 1
              /\ x_fuse[1] = ApplyBlocks(Get(mod).branches[1], mx_in[1])
              /\ fuse_log = <<>>
              /\ mx = mx_in

C8_Witness ==
    /\ mpc = "returned"
    /\ Get(mod).num_branches = 1
    /\ Len(Get(mod).branches[1]) = 2
    /\ x_fuse[1].ok
    /\ x_fuse[1].depth > 0

\* ================================================================ C9
\* C9: a module with B > 1 branches returns B fused maps when
\* multi_scale_output is true and only the one for target 0 when it is false;
\* only the last module of stage 4 is single-scale, every module of every
\* stage is handed exactly B branches, and stage 4 returns a one-element
\* list holding the highest-resolution map.
C9_MultiScaleOutput ==
    /\ \A k \in 1 .. 3 : \A n \in 1 .. Len(model.backbone.stage[k]) :
          model.backbone.stage[k][n].multi_scale_output
             = ~(k = 3 /\ n = Len(model.backbone.stage[k]))
    /\ (pc = "stage") =>
          /\ Get(mod).num_branches > 1
          /\ Len(mx_in) = Get(mod).num_branches
          /\ (mpc = "returned") =>
                /\ Len(x_fuse) = IF Get(mod).multi_scale_output
                                 THEN Get(mod).num_branches ELSE 1
                /\ Len(fuse_log) = Len(x_fuse)
                /\ \A n \in 1 .. Len(fuse_log) : fuse_log[n].i = n
    /\ (pc = "head") =>
          /\ Len(y_list) = 1
          /\ y_list[1].h = mx_in[1].h /\ y_list[1].w = mx_in[1].w
          /\ \A i \in 2 .. Len(mx_in) : mx_in[i].h < y_list[1].h

C9_Witness ==
    /\ pc = "head"
    /\ Len(y_list) = 1
    /\ Len(mx_in) = 4
    /\ ~Get(mod).multi_scale_output

\* ================================================================ C10
IsStride2Conv3x3(l) == l.op = "conv" /\ l.k = 3 /\ l.s = 2 /\ l.p = 1

ConvCount(ls) == Cardinality({n \in 1 .. Len(ls) : ls[n].op = "conv"})

\* fuse_layers[i][j] is built as the claim describes
FuseLayerAsDescribed(m, i, j) ==
    LET f == Get(m.fuse_layers)[i][j]
    IN  IF j = i THEN IsNone(f)
        ELSE IF j > i
        THEN /\ Len(Get(f)) = 3
             /\ Get(f)[1].op = "conv" /\ Get(f)[1].k = 1 /\ Get(f)[1].s = 1
             /\ Get(f)[2].op = "bn"
             /\ Get(f)[3].op = "up" /\ Get(f)[3].s = Pow(2, j - i)
        ELSE /\ ConvCount(Get(f)) = i - j
             /\ \A n \in 1 .. Len(Get(f)) :
                   Get(f)[n].op = "conv" => IsStride2Conv3x3(Get(f)[n])
             /\ \A n \in 1 .. Len(Get(f)) : Get(f)[n].op # "up"

RECURSIVE SumOf(_, _)
SumOf(terms, j) ==
    IF j = 1 THEN terms[1] ELSE Add(SumOf(terms, j - 1), terms[j])

\* C10: in every fusion module of the baseline network, for every computed
\* target i and source j the resampled branch j has branch i's channel count
\* and spatial size; the fused output is the activation of a sum with exactly
\* one term per branch, formed after every branch has produced its output.
C10_FusionTermsMatchTarget ==
    (pc = "stage") =>
        \A n \in 1 .. Len(fuse_log) :
            LET e == fuse_log[n]
                m == Get(mod)
            IN  /\ e.branches_done = m.num_branches
                /\ DOMAIN e.terms = 1 .. m.num_branches
                /\ \A j \in 1 .. m.num_branches :
                      /\ e.terms[j].ok
                      /\ e.terms[j].c = mx[e.i].c
                      /\ e.terms[j].h = mx[e.i].h
                      /\ e.terms[j].w = mx[e.i].w
                      /\ FuseLayerAsDescribed(m, e.i, j)
                      /\ (j = e.i) => e.terms[j] = mx[j]
                /\ mpc # "raised"
                /\ x_fuse[n] = ApplyLayer(ReLU, SumOf(e.terms, m.num_branches))

C10_Witness ==
    /\ pc = "stage"
    /\ stage = 3
    /\ Len(fuse_log) = 4
    /\ fuse_log[3].i = 3
    /\ fuse_log[3].terms[1].h = mx[3].h
    /\ fuse_log[3].terms[4].h = mx[3].h
    /\ IsStandardImage(Get(image))

\* ================================================================ C11
\* n / 2, rounded up: the size a stride-2 3x3 convolution with padding 1 gives
HalfUp(n) == (n + 1) \div 2

\* the first module of the running stage has been handed its input list
StageReceived == pc = "stage" /\ mi = 1

\* stage 4 has handed its list back: x = y_list[0] is what forward returns
BackboneReturned == pc = "head"

\* the layers that make branch i of the running stage, when there are any
NewBranchLayers(i) == Get(model.backbone.transition[stage][i])

\* stage k+1 (k = stage) receives k+1 branches; from stage 3 on the branches
\* the previous stage had are its outputs at the same index, and the one new
\* branch is the previous stage's last output through one stride-2
\* convolution
BranchesHandedOn ==
    /\ Len(mx_in) = stage + 1
    /\ Len(mx_in) = model.backbone.cfg[stage].NUM_BRANCHES
    /\ (stage >= 2) =>
          /\ Len(y_list) = stage
          /\ \A i \in 1 .. stage :
                IsNone(model.backbone.transition[stage][i]) /\ mx_in[i] = y_list[i]
          /\ mx_in[stage + 1] = ApplySeq(NewBranchLayers(stage + 1), y_list[stage])
    /\ (stage = 1) => mx_in[2] = ApplySeq(NewBranchLayers(2), Get(xt))
    /\ ConvCount(NewBranchLayers(stage + 1)) = 1
    /\ IsStride2Conv3x3(NewBranchLayers(stage + 1)[1])

\* C11 (as stated): stage k receives exactly k branches, handed on as above,
\* so that branch i always has half the height and width of branch i-1, and
\* the backbone returns output 0 of stage 4 at a quarter of the input's
\* height and width.
C11_BranchHalvesExactly ==
    /\ StageReceived =>
          /\ BranchesHandedOn
          /\ \A i \in 2 .. Len(mx_in) :
                mx_in[i].h * 2 = mx_in[i - 1].h /\ mx_in[i].w * 2 = mx_in[i - 1].w
    /\ BackboneReturned =>
          /\ Len(y_list) = 1
          /\ y_list[1].h * 4 = Get(image).h /\ y_list[1].w * 4 = Get(image).w

\* C11 (amended): stage k receives exactly k branches, handed on as above;
\* branch i has half the height and width of branch i-1 rounded up, which is
\* exactly half when the image's height and width are multiples of 32; when
\* the backbone returns, its map is output 0 of stage 4, the only one stage 4
\* returns and its highest-resolution one, with the image's height and width
\* halved twice, rounding up: a quarter when they are multiples of 4.
C11_BranchHalvesRoundingUp ==
    /\ StageReceived =>
          /\ BranchesHandedOn
          /\ \A i \in 2 .. Len(mx_in) :
                /\ mx_in[i].h = HalfUp(mx_in[i - 1].h)
                /\ mx_in[i].w = HalfUp(mx_in[i - 1].w)
                /\ (Get(image).h % 32 = 0) => mx_in[i].h * 2 = mx_in[i - 1].h
                /\ (Get(image).w % 32 = 0) => mx_in[i].w * 2 = mx_in[i - 1].w
    /\ BackboneReturned =>
          /\ Len(y_list) = 1
          /\ \A i \in 2 .. Len(mx_in) : mx_in[i].h < y_list[1].h
          /\ y_list[1].h = HalfUp(HalfUp(Get(image).h))
          /\ y_list[1].w = HalfUp(HalfUp(Get(image).w))
          /\ (Get(image).h % 4 = 0) => y_list[1].h * 4 = Get(image).h
          /\ (Get(image).w % 4 = 0) => y_list[1].w * 4 = Get(image).w
    /\ (pc = "returned") => Get(xt) = y_list[1]

C11_Witness ==
    /\ StageReceived
    /\ stage = 3
    /\ Get(image).h = 48
    /\ mx_in[3].h = 3
    /\ mx_in[4].h = 2
    /\ mx_in[3] = y_list[3]

====
